---- MODULE Spec2Model ----
(***************************************************************************)
(* lite_migrate: a run of _scripts/migrate.py main() against one SQLite    *)
(* database and one migrations folder.                                     *)
(*                                                                         *)
(* The database is modelled by the three places a change can be in:        *)
(*   txn      changes of the connection's open transaction (uncommitted),  *)
(*   wal      committed changes held by the write-ahead log,               *)
(*   primary  the main database file.                                      *)
(* A change is a record <<run, name, i>>: up-step i of migration `name`    *)
(* applied by run `run`; <<run, LM_MIGRATIONS_TABLE, 0>> is the creation   *)
(* of the bookkeeping table and <<run, name, 0>> would be a bookkeeping    *)
(* row for migration `name`.                                               *)
(*                                                                         *)
(* The connection string of main() is a placeholder (":memory:", marked    *)
(* TODO); the database is taken to be a file database that survives the    *)
(* process, as the WAL protocol of main() assumes.  SQLite behaves as       *)
(* documented: a commit in WAL mode appends to the log, a commit in        *)
(* DELETE mode writes the main file, an automatic checkpoint may follow a  *)
(* commit unless wal_autocheckpoint is 0, and a checkpoint is refused      *)
(* while the connection has a transaction open.  The end of a process      *)
(* loses its open transaction and makes no checkpoint of its own.          *)
(***************************************************************************)
EXTENDS Integers, Sequences, FiniteSets, TLC

\* Bounds of the model.
MaxUp == 2
MaxRuns == 2

\* Program constants (migrate.py:13, :19).
LM_MIGRATIONS_TABLE == "_lm_migrations"
LM_LATEST_ALIAS == "latest"

\* A name that some depends_on may mention and no file defines.
Ghost == "ghost"

\* Directory entries are <<stem, extension>>, what os.path.splitext returns.
\* The folder listing is any subsequence of a base order: migration names are
\* otherwise uninterpreted, so every relative discovery order of a dependency
\* graph is covered by relabelling.
RunBase == << <<"a", ".py">>, <<"notes", ".txt">>, <<"latest", ".py">>, <<"b", ".py">> >>
OrderBase == << <<"a", ".py">>, <<"__init__", ".py">>, <<"b", ".py">>,
                <<"latest", ".py">>, <<"c", ".py">> >>

\* Stems of the universe that start with "." or "__" (str.startswith).
DotOrDunder == {"__init__"}

VARIABLES
    listing,           \* os.listdir(migrations_folder)
    depends_on,        \* per migration file: its depends_on attribute
    up,                \* per migration file: the number of its up-steps
    run,               \* number of this invocation of main()
    pc,                \* position of main()
    err,               \* the exception that ended the run, or "none"
    idx,               \* position of the for loop over the listing
    migrations,        \* keys of the migrations dict, in insertion order
    aj,                \* adjacency defaultdict(list)
    roots,             \* roots list
    nodes_seen, cycle_check_set, node_ordering, rem_nodes,
    stack,             \* call stack of _visit: frames [n, i]
    to_execute,        \* remaining migrations of _execute_migrations
    migration,         \* the migration whose steps are being applied
    step_i,            \* position of the for loop over its up-steps
    journal_mode, auto_checkpoint, lock, in_transaction, txn, wal, primary,
    pre_run,           \* history: the main file when the run began
    applied,           \* history: up-steps applied by this run, in order
    ckpt,              \* history: the checkpoint of this run
    succeeded          \* history: runs that returned from main()

inputs == <<listing, depends_on, up>>
loadv == <<idx, migrations, aj, roots>>
dfsv == <<nodes_seen, cycle_check_set, node_ordering, rem_nodes, stack>>
execv == <<to_execute, migration, step_i>>
connv == <<journal_mode, auto_checkpoint, lock, in_transaction, txn>>
dbv == <<wal, primary>>
histv == <<run, pre_run, applied, ckpt, succeeded>>
vars == <<inputs, loadv, dfsv, execv, connv, dbv, histv, pc, err>>

Range(s) == {s[i] : i \in 1..Len(s)}

\* The subsequences of base, as os.listdir may return any part of a folder.
Listings(base) ==
    {s \in UNION {[1..k -> Range(base)] : k \in 0..Len(base)} :
        \E f \in [1..Len(s) -> 1..Len(base)] :
            /\ \A i \in 1..Len(s) : s[i] = base[f[i]]
            /\ \A i, j \in 1..Len(s) : i < j => f[i] < f[j]}

\* Line 153: the entries the loop skips.
Skipped(entry) == entry[2] # ".py" \/ entry[1] \in DotOrDunder

\* The stems of the entries that reach line 156.
Stems(l) == {l[i][1] : i \in {j \in 1..Len(l) : ~Skipped(l[j])}}

MigrationNames(base) == Stems(base) \ {LM_LATEST_ALIAS}

Terminal == {"done", "failed", "crashed"}

\* The state of a fresh process at the entry of main(), lines 124-125, and of
\* the locals it later binds.
FreshLocals ==
    /\ idx = 1
    /\ migrations = <<>>
    /\ aj = [n \in {} |-> <<>>]
    /\ roots = <<>>
    /\ nodes_seen = {}
    /\ cycle_check_set = {}
    /\ node_ordering = <<>>
    /\ rem_nodes = <<>>
    /\ stack = <<>>
    /\ to_execute = <<>>
    /\ migration = "none"
    /\ step_i = 0
    /\ err = "none"
    /\ applied = <<>>
    /\ ckpt = "none"

InitInputs(base, ups) ==
    /\ listing \in Listings(base)
    /\ depends_on \in [Stems(listing) \ {LM_LATEST_ALIAS} ->
                          SUBSET (MigrationNames(base) \cup {Ghost})]
    /\ up \in [Stems(listing) \ {LM_LATEST_ALIAS} -> ups]

Init ==
    /\ InitInputs(RunBase, 0..MaxUp)
    /\ FreshLocals
    /\ run = 1
    /\ pc = "pragma_wal"
    /\ journal_mode = "delete"
    /\ auto_checkpoint = TRUE
    /\ lock = "none"
    /\ in_transaction = FALSE
    /\ txn = {}
    /\ wal = {}
    /\ primary = {}
    /\ pre_run = {}
    /\ succeeded = {}

\* The adjacency lookup of a defaultdict(list): a missing key reads as [].
Adj(n) == IF n \in DOMAIN aj THEN aj[n] ELSE <<>>

\* An unhandled exception leaves main(): the process ends (line 200), which
\* closes the connection, rolling back its open transaction.
Raise(e) ==
    /\ pc' = "failed"
    /\ err' = e
    /\ txn' = {}
    /\ in_transaction' = FALSE
    /\ lock' = IF lock = "run" THEN "none" ELSE lock

\* What the database shows to the connection.
Visible == primary \cup wal \cup txn

\* SQLite makes recs durable: in WAL mode they are appended to the log, and
\* an automatic checkpoint may then fold the log into the main file; in
\* DELETE mode they are written to the main file.
Durable(recs) ==
    IF journal_mode = "wal"
    THEN \E fold \in {FALSE, auto_checkpoint} :
            IF fold
            THEN primary' = primary \cup wal \cup recs /\ wal' = {}
            ELSE wal' = wal \cup recs /\ primary' = primary
    ELSE primary' = primary \cup recs /\ wal' = wal


\* ------------------------------------------------------------------ main()

\* PragmaWal with the pragma lost: the journal mode stays as it was.
PragmaWal_KeepsMode ==
    /\ pc = "pragma_wal"
    /\ pc' = "pragma_autockpt"
    /\ UNCHANGED <<inputs, loadv, dfsv, execv, connv, dbv, histv, err>>

\* Line 131: PRAGMA journal_mode=WAL.  Changing the mode needs the database
\* to itself; it is refused while another connection writes.
PragmaWal ==
    /\ pc = "pragma_wal"
    /\ IF journal_mode # "wal" /\ lock = "other"
       THEN Raise("OperationalError") /\ UNCHANGED journal_mode
       ELSE /\ journal_mode' = "wal"
            /\ pc' = "pragma_autockpt"
            /\ UNCHANGED <<err, txn, in_transaction, lock>>
    /\ UNCHANGED <<inputs, loadv, dfsv, execv, auto_checkpoint, dbv, histv>>

\* Line 132: PRAGMA wal_autocheckpoint=0.
PragmaAutoCheckpoint ==
    /\ pc = "pragma_autockpt"
    /\ auto_checkpoint' = FALSE
    /\ pc' = "begin"
    /\ UNCHANGED <<inputs, loadv, dfsv, execv, journal_mode, lock,
                   in_transaction, txn, dbv, histv, err>>

\* BeginImmediate as a plain BEGIN: the transaction is deferred and takes no
\* lock until its first write.
BeginImmediate_Deferred ==
    /\ pc = "begin"
    /\ in_transaction' = TRUE
    /\ pc' = "create_table"
    /\ UNCHANGED <<inputs, loadv, dfsv, execv, journal_mode, auto_checkpoint,
                   lock, txn, dbv, histv, err>>

\* Line 136: BEGIN IMMEDIATE takes the write lock, or fails when another
\* connection holds it.
BeginImmediate ==
    /\ pc = "begin"
    /\ IF lock = "other"
       THEN Raise("OperationalError")
       ELSE /\ lock' = "run"
            /\ in_transaction' = TRUE
            /\ pc' = "create_table"
            /\ UNCHANGED <<err, txn>>
    /\ UNCHANGED <<inputs, loadv, dfsv, execv, journal_mode, auto_checkpoint,
                   dbv, histv>>

\* Line 139: CREATE TABLE IF NOT EXISTS, inside the open transaction.
CreateTable ==
    /\ pc = "create_table"
    /\ txn' = IF \E r \in Visible : r[2] = LM_MIGRATIONS_TABLE
              THEN txn
              ELSE txn \cup {<<run, LM_MIGRATIONS_TABLE, 0>>}
    /\ pc' = "load"
    /\ UNCHANGED <<inputs, loadv, dfsv, execv, journal_mode, auto_checkpoint,
                   lock, in_transaction, dbv, histv, err>>

\* Lines 149-154: an entry that is no migration module is skipped.
SkipFile ==
    /\ pc = "load"
    /\ idx <= Len(listing)
    /\ Skipped(listing[idx])
    /\ idx' = idx + 1
    /\ UNCHANGED <<inputs, migrations, aj, roots, dfsv, execv, connv, dbv,
                   histv, pc, err>>

\* ForbiddenName with the name test taken for another reason to skip the
\* entry.
ForbiddenName_Skips ==
    /\ pc = "load"
    /\ idx <= Len(listing)
    /\ ~Skipped(listing[idx])
    /\ listing[idx][1] = LM_LATEST_ALIAS
    /\ idx' = idx + 1
    /\ UNCHANGED <<inputs, migrations, aj, roots, dfsv, execv, connv, dbv,
                   histv, pc, err>>

\* Lines 159-161: the reserved alias is no migration name.
ForbiddenName ==
    /\ pc = "load"
    /\ idx <= Len(listing)
    /\ ~Skipped(listing[idx])
    /\ listing[idx][1] = LM_LATEST_ALIAS
    /\ Raise("ForbiddenMigrationName")
    /\ UNCHANGED <<inputs, loadv, dfsv, execv, journal_mode, auto_checkpoint,
                   dbv, histv>>

\* AddToLookup with a referential check: an edge is recorded only from a
\* migration that is already loaded.
AddToLookup_ChecksPresence(m_name, deps) ==
    /\ roots' = IF deps = {} THEN Append(roots, m_name) ELSE roots
    /\ aj' = [dm \in DOMAIN aj \cup (deps \cap (Range(migrations) \cup {m_name})) |->
                 IF dm \in deps THEN Append(Adj(dm), m_name) ELSE aj[dm]]

\* Lines 169-174: roots and adjacency lists after module m_name with
\* depends_on deps.
AddToLookup(m_name, deps) ==
    /\ roots' = IF deps = {} THEN Append(roots, m_name) ELSE roots
    /\ aj' = [dm \in DOMAIN aj \cup deps |->
                 IF dm \in deps THEN Append(Adj(dm), m_name) ELSE aj[dm]]

\* Lines 163-174: load the module (it enters the dict before it is executed,
\* line 43), validate it, add it to the lookup tables.
LoadMigration ==
    /\ pc = "load"
    /\ idx <= Len(listing)
    /\ ~Skipped(listing[idx])
    /\ listing[idx][1] # LM_LATEST_ALIAS
    /\ LET m_name == listing[idx][1] IN
       /\ migrations' = Append(migrations, m_name)
       /\ \E valid \in BOOLEAN :
            IF valid
            THEN /\ AddToLookup(m_name, depends_on[m_name])
                 /\ idx' = idx + 1
                 /\ UNCHANGED <<pc, err, connv>>
            ELSE /\ Raise("AssertionError")
                 /\ UNCHANGED <<idx, aj, roots, journal_mode, auto_checkpoint>>
    /\ UNCHANGED <<inputs, dfsv, execv, dbv, histv>>

\* ------------------------------------------- _check_for_cycles_and_order()

\* Lines 178, 75-98: the call, and the locals before the while loop.
CallOrder ==
    /\ pc = "load"
    /\ idx > Len(listing)
    /\ nodes_seen' = {}
    /\ cycle_check_set' = {}
    /\ node_ordering' = <<>>
    /\ rem_nodes' = migrations
    /\ stack' = <<>>
    /\ pc' = "order"
    /\ UNCHANGED <<inputs, loadv, execv, connv, dbv, histv, err>>

\* Lines 99-101: pop the last remaining node and call _visit on it.
PopNode ==
    /\ pc = "order"
    /\ stack = <<>>
    /\ rem_nodes # <<>>
    /\ rem_nodes' = SubSeq(rem_nodes, 1, Len(rem_nodes) - 1)
    /\ stack' = <<[n |-> rem_nodes[Len(rem_nodes)], i |-> 0]>>
    /\ UNCHANGED <<inputs, loadv, nodes_seen, cycle_check_set, node_ordering,
                   execv, connv, dbv, histv, pc, err>>

Top == stack[Len(stack)]
Popped == SubSeq(stack, 1, Len(stack) - 1)

\* VisitEnter with one visited set for both tests: a node on the current
\* path is skipped like a finished one.
VisitEnter_OneVisitedSet ==
    /\ pc = "order"
    /\ stack # <<>>
    /\ Top.i = 0
    /\ IF Top.n \in nodes_seen \cup cycle_check_set
       THEN /\ stack' = Popped
            /\ UNCHANGED cycle_check_set
       ELSE /\ cycle_check_set' = cycle_check_set \cup {Top.n}
            /\ stack' = [stack EXCEPT ![Len(stack)].i = 1]
    /\ UNCHANGED <<inputs, loadv, nodes_seen, node_ordering, rem_nodes, execv,
                   connv, dbv, histv, pc, err>>

\* VisitEnter without the test of line 82: a finished node is visited again.
VisitEnter_NoDoneTest ==
    /\ pc = "order"
    /\ stack # <<>>
    /\ Top.i = 0
    /\ IF Top.n \in cycle_check_set
       THEN /\ Raise("DependencyCycle")
            /\ UNCHANGED <<stack, cycle_check_set, journal_mode, auto_checkpoint>>
       ELSE /\ cycle_check_set' = cycle_check_set \cup {Top.n}
            /\ stack' = [stack EXCEPT ![Len(stack)].i = 1]
            /\ UNCHANGED <<pc, err, connv>>
    /\ UNCHANGED <<inputs, loadv, nodes_seen, node_ordering, rem_nodes, execv,
                   dbv, histv>>

\* Lines 82-89: the entry of _visit(n).
VisitEnter ==
    /\ pc = "order"
    /\ stack # <<>>
    /\ Top.i = 0
    /\ IF Top.n \in nodes_seen
       THEN /\ stack' = Popped
            /\ UNCHANGED <<cycle_check_set, pc, err, connv>>
       ELSE IF Top.n \in cycle_check_set
       THEN /\ Raise("DependencyCycle")
            /\ UNCHANGED <<stack, cycle_check_set, journal_mode, auto_checkpoint>>
       ELSE /\ cycle_check_set' = cycle_check_set \cup {Top.n}
            /\ stack' = [stack EXCEPT ![Len(stack)].i = 1]
            /\ UNCHANGED <<pc, err, connv>>
    /\ UNCHANGED <<inputs, loadv, nodes_seen, node_ordering, rem_nodes, execv,
                   dbv, histv>>

\* Lines 91-92: the next dependent of n is visited.
VisitLoop ==
    /\ pc = "order"
    /\ stack # <<>>
    /\ Top.i \in 1..Len(Adj(Top.n))
    /\ stack' = Append([stack EXCEPT ![Len(stack)].i = Top.i + 1],
                       [n |-> Adj(Top.n)[Top.i], i |-> 0])
    /\ UNCHANGED <<inputs, loadv, nodes_seen, cycle_check_set, node_ordering,
                   rem_nodes, execv, connv, dbv, histv, pc, err>>

\* VisitExit appending n to the order instead of inserting it at the front.
VisitExit_Appends ==
    /\ pc = "order"
    /\ stack # <<>>
    /\ Top.i > Len(Adj(Top.n))
    /\ cycle_check_set' = cycle_check_set \ {Top.n}
    /\ nodes_seen' = nodes_seen \cup {Top.n}
    /\ node_ordering' = Append(node_ordering, Top.n)
    /\ stack' = Popped
    /\ UNCHANGED <<inputs, loadv, rem_nodes, execv, connv, dbv, histv, pc, err>>

\* Lines 94-96: n is done and goes to the front of the order.
VisitExit ==
    /\ pc = "order"
    /\ stack # <<>>
    /\ Top.i > Len(Adj(Top.n))
    /\ cycle_check_set' = cycle_check_set \ {Top.n}
    /\ nodes_seen' = nodes_seen \cup {Top.n}
    /\ node_ordering' = <<Top.n>> \o node_ordering
    /\ stack' = Popped
    /\ UNCHANGED <<inputs, loadv, rem_nodes, execv, connv, dbv, histv, pc, err>>

\* Lines 103, 178, 181, 114: the order is returned and handed to
\* _execute_migrations, which copies it.
ReturnOrder ==
    /\ pc = "order"
    /\ stack = <<>>
    /\ rem_nodes = <<>>
    /\ to_execute' = node_ordering
    /\ pc' = "exec_pop"
    /\ UNCHANGED <<inputs, loadv, dfsv, migration, step_i, connv, dbv, histv, err>>

\* ------------------------------------------------- _execute_migrations()

\* ExecPop taking the last migration of the list (pop() for pop(0)).
ExecPop_PopsLast ==
    /\ pc = "exec_pop"
    /\ IF to_execute = <<>>
       THEN /\ pc' = "checkpoint"
            /\ UNCHANGED execv
       ELSE /\ migration' = to_execute[Len(to_execute)]
            /\ to_execute' = SubSeq(to_execute, 1, Len(to_execute) - 1)
            /\ step_i' = 1
            /\ pc' = IF up[to_execute[Len(to_execute)]] >= 1
                     THEN "exec_step" ELSE "exec_pop"
    /\ UNCHANGED <<inputs, loadv, dfsv, connv, dbv, histv, err>>

\* Lines 116-117: the while test, the pop, and the first test of the for
\* loop; line 184 follows the return.
ExecPop ==
    /\ pc = "exec_pop"
    /\ IF to_execute = <<>>
       THEN /\ pc' = "checkpoint"
            /\ UNCHANGED execv
       ELSE /\ migration' = Head(to_execute)
            /\ to_execute' = Tail(to_execute)
            /\ step_i' = 1
            /\ pc' = IF up[Head(to_execute)] >= 1 THEN "exec_step" ELSE "exec_pop"
    /\ UNCHANGED <<inputs, loadv, dfsv, connv, dbv, histv, err>>

\* ApplyStep with a retry: a step that raised is noted and tried again.
ApplyStep_Retries ==
    /\ pc = "exec_step"
    /\ \E ok \in BOOLEAN :
         IF ok /\ (in_transaction \/ lock # "other")
         THEN /\ applied' = Append(applied, <<migration, step_i>>)
              /\ pc' = "exec_commit"
              /\ err' = err
              /\ txn' = txn \cup {<<run, migration, step_i>>}
              /\ in_transaction' = TRUE
              /\ lock' = "run"
         ELSE /\ err' = "StepApplicationFailure"
              /\ UNCHANGED <<pc, applied, txn, in_transaction, lock>>
    /\ UNCHANGED <<inputs, loadv, dfsv, execv, journal_mode, auto_checkpoint,
                   dbv, run, pre_run, ckpt, succeeded>>

\* ApplyStep with the step's exception caught: the failure is noted and the
\* loop goes on.
ApplyStep_SwallowsFailure ==
    /\ pc = "exec_step"
    /\ pc' = "exec_commit"
    /\ \E ok \in BOOLEAN :
         IF ok /\ (in_transaction \/ lock # "other")
         THEN /\ applied' = Append(applied, <<migration, step_i>>)
              /\ err' = err
              /\ txn' = txn \cup {<<run, migration, step_i>>}
              /\ in_transaction' = TRUE
              /\ lock' = "run"
         ELSE /\ err' = "StepApplicationFailure"
              /\ UNCHANGED <<applied, txn, in_transaction, lock>>
    /\ UNCHANGED <<inputs, loadv, dfsv, execv, journal_mode, auto_checkpoint,
                   dbv, run, pre_run, ckpt, succeeded>>

\* Line 118: step(cur=conn.cursor()).  The step may raise.  With a
\* transaction open its change joins the transaction.  With none open, the
\* sqlite3 module begins one before a data statement (kind "dml"), taking the
\* write lock, and any other statement (kind "ddl") commits by itself; either
\* fails while another connection holds the write lock.
ApplyStep ==
    /\ pc = "exec_step"
    /\ \E ok \in BOOLEAN, kind \in {"dml", "ddl"} :
         IF ~ok \/ (~in_transaction /\ lock = "other")
         THEN /\ Raise("StepApplicationFailure")
              /\ UNCHANGED <<applied, dbv>>
         ELSE /\ applied' = Append(applied, <<migration, step_i>>)
              /\ pc' = "exec_commit"
              /\ err' = err
              /\ IF in_transaction
                 THEN /\ txn' = txn \cup {<<run, migration, step_i>>}
                      /\ UNCHANGED <<lock, in_transaction, dbv>>
                 ELSE IF kind = "dml"
                 THEN /\ txn' = {<<run, migration, step_i>>}
                      /\ in_transaction' = TRUE
                      /\ lock' = "run"
                      /\ UNCHANGED dbv
                 ELSE /\ Durable({<<run, migration, step_i>>})
                      /\ UNCHANGED <<txn, in_transaction, lock>>
    /\ UNCHANGED <<inputs, loadv, dfsv, execv, journal_mode, auto_checkpoint,
                   run, pre_run, ckpt, succeeded>>

\* Line 119, and the next test of the for loop: conn.commit() ends the open
\* transaction, if any, and releases the write lock.
Commit ==
    /\ pc = "exec_commit"
    /\ IF in_transaction
       THEN /\ Durable(txn)
            /\ txn' = {}
            /\ in_transaction' = FALSE
            /\ lock' = "none"
       ELSE UNCHANGED <<dbv, txn, in_transaction, lock>>
    /\ step_i' = step_i + 1
    /\ pc' = IF step_i + 1 <= up[migration] THEN "exec_step" ELSE "exec_pop"
    /\ UNCHANGED <<inputs, loadv, dfsv, to_execute, migration, journal_mode,
                   auto_checkpoint, histv, err>>

\* Checkpoint that truncates the log without writing it to the main file.
Checkpoint_DropsLog ==
    /\ pc = "checkpoint"
    /\ IF in_transaction
       THEN /\ Raise("OperationalError")
            /\ ckpt' = "refused"
            /\ UNCHANGED dbv
       ELSE /\ primary' = primary
            /\ wal' = {}
            /\ ckpt' = "done"
            /\ pc' = "journal_delete"
            /\ UNCHANGED <<err, txn, in_transaction, lock>>
    /\ UNCHANGED <<inputs, loadv, dfsv, execv, journal_mode, auto_checkpoint,
                   run, pre_run, applied, succeeded>>

\* Line 184: PRAGMA wal_checkpoint(TRUNCATE) folds the log into the main file.
\* SQLite refuses it (SQLITE_LOCKED) while the connection has a transaction
\* open.
Checkpoint ==
    /\ pc = "checkpoint"
    /\ IF in_transaction
       THEN /\ Raise("OperationalError")
            /\ ckpt' = "refused"
            /\ UNCHANGED dbv
       ELSE /\ primary' = primary \cup wal
            /\ wal' = {}
            /\ ckpt' = "done"
            /\ pc' = "journal_delete"
            /\ UNCHANGED <<err, txn, in_transaction, lock>>
    /\ UNCHANGED <<inputs, loadv, dfsv, execv, journal_mode, auto_checkpoint,
                   run, pre_run, applied, succeeded>>

\* Line 187: PRAGMA journal_mode=DELETE (the mode stays as it is while another
\* connection uses the database); main() returns.
JournalDelete ==
    /\ pc = "journal_delete"
    /\ journal_mode' = IF lock = "other" THEN journal_mode ELSE "delete"
    /\ pc' = "done"
    /\ succeeded' = succeeded \cup {run}
    /\ UNCHANGED <<inputs, loadv, dfsv, execv, auto_checkpoint, lock,
                   in_transaction, txn, dbv, run, pre_run, applied, ckpt, err>>

\* ------------------------------------------------------------- environment

\* The process dies: its memory is lost, its open transaction is rolled back
\* by recovery, the log and the main file stay as they are.
Crash ==
    /\ pc \notin Terminal
    /\ pc' = "crashed"
    /\ idx' = 1
    /\ migrations' = <<>>
    /\ aj' = [n \in {} |-> <<>>]
    /\ roots' = <<>>
    /\ nodes_seen' = {}
    /\ cycle_check_set' = {}
    /\ node_ordering' = <<>>
    /\ rem_nodes' = <<>>
    /\ stack' = <<>>
    /\ to_execute' = <<>>
    /\ migration' = "none"
    /\ step_i' = 0
    /\ applied' = <<>>
    /\ txn' = {}
    /\ in_transaction' = FALSE
    /\ lock' = IF lock = "run" THEN "none" ELSE lock
    /\ UNCHANGED <<inputs, journal_mode, auto_checkpoint, dbv, run, pre_run,
                   ckpt, succeeded, err>>

\* Another connection begins a write transaction: possible whenever the write
\* lock is free.
OtherBegin ==
    /\ pc \notin Terminal
    /\ lock = "none"
    /\ lock' = "other"
    /\ UNCHANGED <<inputs, loadv, dfsv, execv, journal_mode, auto_checkpoint,
                   in_transaction, txn, dbv, histv, pc, err>>

\* The other connection ends its transaction.
OtherEnd ==
    /\ lock = "other"
    /\ lock' = "none"
    /\ UNCHANGED <<inputs, loadv, dfsv, execv, journal_mode, auto_checkpoint,
                   in_transaction, txn, dbv, histv, pc, err>>

\* Lines 199-200, 124-125: main() is invoked again, by a new process, on the
\* same folder and the same database.
NewRun ==
    /\ pc \in Terminal
    /\ run < MaxRuns
    /\ run' = run + 1
    /\ pre_run' = primary
    /\ pc' = "pragma_wal"
    /\ idx' = 1
    /\ migrations' = <<>>
    /\ aj' = [n \in {} |-> <<>>]
    /\ roots' = <<>>
    /\ nodes_seen' = {}
    /\ cycle_check_set' = {}
    /\ node_ordering' = <<>>
    /\ rem_nodes' = <<>>
    /\ stack' = <<>>
    /\ to_execute' = <<>>
    /\ migration' = "none"
    /\ step_i' = 0
    /\ err' = "none"
    /\ applied' = <<>>
    /\ ckpt' = "none"
    /\ auto_checkpoint' = TRUE
    /\ UNCHANGED <<inputs, journal_mode, lock, in_transaction, txn, dbv, succeeded>>

\* ---------------------------------------------------------- specifications

Next ==
    \/ PragmaWal
    \/ PragmaAutoCheckpoint
    \/ BeginImmediate
    \/ CreateTable
    \/ SkipFile
    \/ ForbiddenName
    \/ LoadMigration
    \/ CallOrder
    \/ PopNode
    \/ VisitEnter
    \/ VisitLoop
    \/ VisitExit
    \/ ReturnOrder
    \/ ExecPop
    \/ ApplyStep
    \/ Commit
    \/ Checkpoint
    \/ JournalDelete
    \/ Crash
    \/ OtherBegin
    \/ OtherEnd
    \/ NewRun

Spec == Init /\ [][Next]_vars

\* The loader and the orderer alone, on every dependency graph over three
\* migrations and one undefined name: the state of main() at line 149 of a
\* first run, and its steps up to the return of line 178.
InitOrder ==
    /\ InitInputs(OrderBase, {MaxUp})
    /\ FreshLocals
    /\ run = 1
    /\ pc = "load"
    /\ journal_mode = "wal"
    /\ auto_checkpoint = FALSE
    /\ lock = "run"
    /\ in_transaction = TRUE
    /\ txn = {<<1, LM_MIGRATIONS_TABLE, 0>>}
    /\ wal = {}
    /\ primary = {}
    /\ pre_run = {}
    /\ succeeded = {}

NextOrder ==
    \/ SkipFile
    \/ ForbiddenName
    \/ LoadMigration
    \/ CallOrder
    \/ PopNode
    \/ VisitEnter
    \/ VisitLoop
    \/ VisitExit
    \/ ReturnOrder

SpecOrder == InitOrder /\ [][NextOrder]_vars

\* The loader and _check_for_cycles_and_order() as the interpreter runs them:
\* one thread, which takes its next step whenever it has one.
SpecOrderFair == SpecOrder /\ WF_vars(NextOrder)

\* ------------------------------------------------------------- properties

\* The migrations of the folder: the names that have a module.
Loadable == DOMAIN depends_on

RECURSIVE Closure(_)
Closure(S) ==
    LET T == S \cup UNION {depends_on[x] : x \in S \cap Loadable}
    IN  IF T = S THEN S ELSE Closure(T)

\* Every name m depends on, directly or through other migrations.
TransDeps(m) == Closure(depends_on[m])

HasCycle == \E m \in Loadable : m \in TransDeps(m)

AllPresent == \A m \in Loadable : depends_on[m] \subseteq Loadable

Pos(s, x) == CHOOSE i \in 1..Len(s) : s[i] = x

\* Changes that are committed: in the log or in the main file.
Committed == wal \cup primary

\* The positions of main() from the call of _execute_migrations on.
ExecutionPcs == {"exec_pop", "exec_step", "exec_commit", "checkpoint",
                 "journal_delete", "done"}

RECURSIVE AllSteps(_)
\* The up-steps of the migrations of order, in order.
AllSteps(order) ==
    IF order = <<>> THEN <<>>
    ELSE [i \in 1..up[Head(order)] |-> <<Head(order), i>>] \o AllSteps(Tail(order))

\* C1: when the dependency graph is acyclic and every depends_on name has a
\* module, the orderer does not raise DependencyCycle, and the order it
\* returns holds every migration exactly once, each after everything it
\* transitively depends on.
C1_OrderIsTopological ==
    (~HasCycle /\ AllPresent) =>
        /\ err # "DependencyCycle"
        /\ pc = "exec_pop" =>
            /\ Len(node_ordering) = Cardinality(Range(migrations))
            /\ Range(node_ordering) = Range(migrations)
            /\ Range(migrations) = Loadable
            /\ \A m \in Loadable : \A d \in TransDeps(m) :
                    Pos(node_ordering, d) < Pos(node_ordering, m)

\* An order was returned for a graph in which some migration depends on
\* another only through a third.
C1_Witness ==
    /\ pc = "exec_pop"
    /\ ~HasCycle
    /\ AllPresent
    /\ \E m \in Loadable : TransDeps(m) # depends_on[m]

\* C2: when the dependency graph has a cycle (a self-dependency included),
\* the orderer never returns: once it is called the run can only fail with
\* DependencyCycle, the execution engine is never entered and no up-step is
\* applied.
C2_CycleFailsBeforeExecution ==
    HasCycle =>
        /\ applied = <<>>
        /\ pc \notin ExecutionPcs
        /\ (pc = "failed" /\ idx > Len(listing)) => err = "DependencyCycle"

\* The orderer raised DependencyCycle on a graph whose migrations have
\* up-steps.
C2_Witness ==
    /\ HasCycle
    /\ pc = "failed"
    /\ err = "DependencyCycle"
    /\ \E m \in Loadable : up[m] >= 1

\* C3: when some depends_on names a migration that has no module, the run
\* fails during ordering: the execution engine is never entered and no
\* up-step is applied.
C3_AbsentDependencyFails ==
    ~AllPresent => (pc \notin ExecutionPcs /\ applied = <<>>)

\* C4: the up-steps of a migration are committed all together or not at all:
\* at no time is a proper, non-empty part of them committed.
C4_CommitPerMigration ==
    \A m \in Loadable :
        LET done == {i \in 1..up[m] : <<run, m, i>> \in Committed}
        IN  done = {} \/ done = 1..up[m]

\* C5: a migration of which an up-step was applied has every migration it
\* transitively depends on applied in full and committed.
C5_DependenciesCommittedFirst ==
    \A k \in 1..Len(applied) :
        \A d \in TransDeps(applied[k][1]) :
            /\ d \in Loadable
            /\ \A i \in 1..up[d] : <<run, d, i>> \in Committed

\* The same for the dependencies that have a module.
LoadedDependenciesCommittedFirst ==
    \A k \in 1..Len(applied) :
        \A d \in TransDeps(applied[k][1]) \cap Loadable :
            \A i \in 1..up[d] : <<run, d, i>> \in Committed

C8_WriteLockHeld ==
    pc \in {"create_table", "load", "order", "exec_pop", "exec_step",
            "exec_commit", "checkpoint"} => lock = "run"

\* C9: a migration whose up-steps are all committed has its bookkeeping row
\* committed with them, and after a successful run the rows of the run are
\* one for each migration applied.
C9_BookkeepingRows ==
    /\ \A m \in Loadable :
        (up[m] >= 1 /\ \A i \in 1..up[m] : <<run, m, i>> \in Committed)
            => <<run, m, 0>> \in Committed
    /\ pc = "done" =>
        {r[2] : r \in {q \in Committed : q[1] = run /\ q[3] = 0}}
            \ {LM_MIGRATIONS_TABLE} = Range(node_ordering)

\* C10: no up-step is applied twice in a run, and no up-step is applied that
\* an earlier successful run applied to the same database.
C10_AppliedOnce ==
    /\ \A j, k \in 1..Len(applied) : j # k => applied[j] # applied[k]
    /\ \A k \in 1..Len(applied) : \A r \in succeeded :
            r < run => <<r, applied[k][1], applied[k][2]>> \notin primary

\* The folder holds a module named by the reserved alias.
HasLatest == LM_LATEST_ALIAS \in Stems(listing)

C12_StepFailureAborts ==
    [][/\ (err' = "StepApplicationFailure" /\ err # "StepApplicationFailure") =>
            /\ pc = "exec_step"
            /\ pc' = "failed"
            /\ applied' = applied
            /\ <<migration, step_i>> \notin Range(applied')
            /\ UNCHANGED <<wal, primary>>
            /\ \A k \in 1..Len(applied) :
                    <<run, applied[k][1], applied[k][2]>> \in Committed'
       /\ (pc = "failed" /\ run' = run) =>
            UNCHANGED <<pc, err, applied, to_execute, migration, step_i, txn,
                        wal, primary>>
      ]_vars

\* A step of the second migration failed after the first was applied and
\* committed.
C12_Witness ==
    /\ pc = "failed"
    /\ err = "StepApplicationFailure"
    /\ applied # <<>>
    /\ applied[1][1] # migration
    /\ <<run, applied[1][1], 1>> \in wal

\* What a set of changes amounts to when steps are deterministic and
\* idempotent: which changes it holds, whichever run made them and however
\* often.
Content(recs) == {<<r[2], r[3]>> : r \in recs}

\* C13: a run that completes leaves the database with the content of one
\* uninterrupted run, also when the run before it was interrupted or failed
\* before its checkpoint, whatever that run had left in the log.
C13_RecoveryReachesSameState ==
    pc = "done" =>
        /\ Content(primary) = {<<LM_MIGRATIONS_TABLE, 0>>} \cup
                              UNION {{m} \X (1..up[m]) : m \in Loadable}
        /\ wal = {}
        /\ txn = {}

\* A run completed after an interrupted run whose committed steps were
\* still in the log.
C13_Witness ==
    /\ pc = "done"
    /\ run > 1
    /\ (run - 1) \notin succeeded
    /\ \E r \in primary : r[1] = run - 1 /\ r[3] >= 1

\* The steps that come before step i of the k-th migration of order.
StepsBefore(order, k, i) ==
    AllSteps(SubSeq(order, 1, k - 1)) \o [j \in 1..(i - 1) |-> <<order[k], j>>]

\* C14: _execute_migrations takes the migrations in the order of the
\* sequence it was given and the up-steps of each in their listed order: what
\* has been applied is always exactly the steps listed before the one at
\* hand, so a step starts only after the one before it has returned.
C14_SequenceOrder ==
    /\ pc \in {"exec_step", "exec_commit"} =>
        LET k == Len(node_ordering) - Len(to_execute) IN
        /\ k >= 1
        /\ node_ordering[k] = migration
        /\ to_execute = SubSeq(node_ordering, k + 1, Len(node_ordering))
        /\ step_i \in 1..up[migration]
        /\ applied = StepsBefore(node_ordering, k,
                                 IF pc = "exec_step" THEN step_i ELSE step_i + 1)
    /\ pc = "exec_pop" =>
        applied = AllSteps(SubSeq(node_ordering, 1,
                                  Len(node_ordering) - Len(to_execute)))
    /\ pc \in {"checkpoint", "journal_delete", "done"} =>
        applied = AllSteps(node_ordering)

\* The second step of the second migration is at hand.
C14_Witness ==
    /\ pc = "exec_step"
    /\ step_i = 2
    /\ Len(node_ordering) = 2
    /\ migration = node_ordering[2]
    /\ up[node_ordering[1]] >= 1

\* C15: after a first run has failed with DependencyCycle the database is as
\* it was before the run: same content of the main file and of the log, same
\* journal mode, no lock and no transaction of the run left.
C15_CycleLeavesNoSideEffect ==
    (run = 1 /\ pc = "failed" /\ err = "DependencyCycle") =>
        /\ primary = {}
        /\ wal = {}
        /\ txn = {}
        /\ lock # "run"
        /\ ~in_transaction
        /\ journal_mode = "delete"

\* The part of it that holds: content and lock are as before.
CycleLeavesContentAndLock ==
    (pc = "failed" /\ err = "DependencyCycle") =>
        /\ primary = pre_run
        /\ \A r \in wal : r[1] # run
        /\ txn = {}
        /\ lock # "run"
        /\ ~in_transaction

\* The changes this run has made, committed or not.
RunRecords == {r \in Visible : r[1] = run}

TableVisible == \E r \in Visible : r[2] = LM_MIGRATIONS_TABLE

\* C16: the coordinator's actions come in this order: WAL mode, automatic
\* checkpoints off, write lock, bookkeeping table, execution of the ordered
\* migrations, checkpoint, DELETE mode; at each position of main() exactly
\* the actions before it have had their effect (the journal mode is still
\* WAL when DELETE is asked for, last), and the run has changed nothing in
\* the database before it holds the write lock.
C16_CoordinatorOrder ==
    /\ pc = "pragma_wal" =>
        RunRecords = {} /\ lock # "run" /\ ~in_transaction /\ auto_checkpoint
    /\ pc = "pragma_autockpt" =>
        /\ journal_mode = "wal" /\ auto_checkpoint
        /\ RunRecords = {} /\ lock # "run" /\ ~in_transaction
    /\ pc = "begin" =>
        /\ journal_mode = "wal" /\ ~auto_checkpoint
        /\ RunRecords = {} /\ lock # "run" /\ ~in_transaction
    /\ pc = "create_table" =>
        /\ journal_mode = "wal" /\ ~auto_checkpoint
        /\ lock = "run" /\ in_transaction /\ RunRecords = {}
    /\ pc \in {"load", "order"} =>
        /\ journal_mode = "wal" /\ ~auto_checkpoint
        /\ lock = "run" /\ in_transaction /\ TableVisible
        /\ applied = <<>> /\ ckpt = "none"
    /\ pc \in {"exec_pop", "exec_step", "exec_commit", "checkpoint"} =>
        /\ journal_mode = "wal" /\ ~auto_checkpoint
        /\ TableVisible /\ ckpt = "none"
    /\ pc = "checkpoint" => applied = AllSteps(node_ordering)
    /\ pc = "journal_delete" =>
        /\ journal_mode = "wal" /\ ckpt = "done" /\ wal = {}
        /\ applied = AllSteps(node_ordering)
    /\ pc = "done" =>
        /\ ckpt = "done" /\ wal = {} /\ applied = AllSteps(node_ordering)
        /\ ~auto_checkpoint
    /\ (RunRecords # {} \/ applied # <<>> \/ ckpt # "none") =>
        pc \notin {"pragma_wal", "pragma_autockpt", "begin", "create_table"}

\* A run with up-steps returned from main().
C16_Witness ==
    /\ pc = "done"
    /\ applied # <<>>
    /\ journal_mode = "delete"

\* The migrations the loop of main() has added to the lookup tables so far.
InLookup ==
    IF pc = "failed" /\ err = "AssertionError"
    THEN Range(migrations) \ {listing[idx][1]}
    ELSE Range(migrations)

\* C17: the graph builder makes the roots exactly the loaded migrations with
\* an empty depends_on, and aj[d] holds m (once) exactly when d is in m's
\* depends_on, whether or not d is itself a migration; when the loop has
\* ended, this is so for every migration of the folder.
C17_GraphBuilder ==
    /\ Range(roots) = {m \in InLookup : depends_on[m] = {}}
    /\ Len(roots) = Cardinality(Range(roots))
    /\ \A d \in MigrationNames(OrderBase) \cup {Ghost} :
        /\ Range(Adj(d)) = {m \in InLookup : d \in depends_on[m]}
        /\ Len(Adj(d)) = Cardinality(Range(Adj(d)))
    /\ \A d \in DOMAIN aj : d \in MigrationNames(OrderBase) \cup {Ghost}
    /\ pc \in {"order", "exec_pop"} => InLookup = Loadable

\* The loop has ended with a root, an edge between two migrations, and an
\* edge from a name that no migration has.
C17_Witness ==
    /\ pc = "order"
    /\ roots # <<>>
    /\ Ghost \notin Range(migrations)
    /\ Adj(Ghost) # <<>>
    /\ \E d \in Range(migrations) : Adj(d) # <<>>

\* The nodes whose _visit() call is on the call stack past line 89.
InProgress == {stack[k].n : k \in {j \in 1..Len(stack) : stack[j].i >= 1}}

OrderLeft == pc \in {"exec_pop", "failed"}

\* C18: _check_for_cycles_and_order terminates, by returning an order or by
\* raising DependencyCycle; a node is moved to nodes_seen and put in front
\* of the order at most once; cycle_check_set and nodes_seen are disjoint
\* throughout.
C18_OrderTerminates ==
    /\ [](/\ cycle_check_set \cap nodes_seen = {}
          /\ Len(node_ordering) = Cardinality(Range(node_ordering))
          /\ Range(node_ordering) = nodes_seen
          /\ pc = "order" => cycle_check_set = InProgress)
    /\ [][node_ordering' # node_ordering =>
            /\ Top.n \notin nodes_seen
            /\ nodes_seen' = nodes_seen \cup {Top.n}
            /\ node_ordering' = <<Top.n>> \o node_ordering]_vars
    /\ <>OrderLeft
    /\ [](OrderLeft =>
            \/ pc = "exec_pop" /\ to_execute = node_ordering
            \/ pc = "failed" /\ err \in {"DependencyCycle", "AssertionError",
                                         "ForbiddenMigrationName"})

\* An order was returned for a graph in which a finished node was reached a
\* second time, through its second dependency.
C18_Witness ==
    /\ pc = "exec_pop"
    /\ to_execute = node_ordering
    /\ \E m \in Range(node_ordering) :
           Cardinality(depends_on[m] \cap Loadable) >= 2

\* C19: when the run is at the final checkpoint (line 184), the connection
\* has no open transaction: the transaction of BEGIN IMMEDIATE, with the
\* creation of the bookkeeping table in it, has been committed.
C19_NoTransactionAtCheckpoint ==
    pc = "checkpoint" =>
        /\ ~in_transaction
        /\ txn = {}
        /\ \E r \in wal \cup primary : r[2] = LM_MIGRATIONS_TABLE

\* The part of it that holds: a run that has applied a step has committed.
CommittedAfterAStep ==
    (pc = "checkpoint" /\ applied # <<>>) =>
        /\ ~in_transaction
        /\ txn = {}
        /\ \E r \in wal \cup primary : r[2] = LM_MIGRATIONS_TABLE

====
